---- MODULE Spec2Model ----
(***************************************************************************)
(* Fabric quality scoring (src/src/quality_scorer.py) and pricing          *)
(* (src/src/pricing.py) of tespitProje.                                    *)
(*                                                                         *)
(* Python floats are modelled as exact decimal fixed-point integers:       *)
(*   length_cm               tenths of a centimetre     (23.5 cm  -> 235)  *)
(*   points (unrounded)      thousandths of a point     (0.25     -> 250)  *)
(*   points (after round 2)  hundredths of a point      (0.25     -> 25)   *)
(*   points_per_100m2        thousandths, rounded towards minus infinity   *)
(*                           (order against whole thresholds is exact)     *)
(*   fabric_area_m2          thousandths of a square metre                 *)
(*   prices, amounts         hundredths of the currency unit               *)
(*   grade multipliers       twentieths                 (0.85     -> 17)   *)
(*   discount_percentage     tenths of a percent        (15.0 %   -> 150)  *)
(* round(x, n) is modelled on the exact rational value of x (round half    *)
(* to even), not as the identity.                                          *)
(***************************************************************************)
EXTENDS Integers, Sequences, FiniteSets, TLC

VARIABLES scorer, calculator, defects, fabric_area_m2, fabric_width_cm,
          pc, defect_scores, total_points, major_points, minor_points,
          summary, quality, pricing, call

vars == <<scorer, calculator, defects, fabric_area_m2, fabric_width_cm,
          pc, defect_scores, total_points, major_points, minor_points,
          summary, quality, pricing, call>>

None == [none |-> TRUE]

(***************************************************************************)
(* Bounds of the model                                                     *)
(***************************************************************************)
\* longest defect list given to score_fabric
MaxDefects == 3
\* longest defect length of a direct method call, in tenths of a cm
MaxLength == 4000
\* most negative defect length of a direct method call, in tenths of a cm
MaxNegLength == 300
\* largest density handed to calculate_grade directly, in thousandths
MaxDensity == 65000

(***************************************************************************)
(* Arithmetic helpers                                                      *)
(***************************************************************************)
Max(a, b) == IF a >= b THEN a ELSE b
Min(a, b) == IF a <= b THEN a ELSE b

\* Python int(x) of a length in tenths: truncation towards zero, in whole cm
int(x) == IF x >= 0 THEN x \div 10 ELSE 0 - ((0 - x) \div 10)

\* Python round(num/den, ndigits) as an integer number of the units the
\* caller chose for the result (den already contains the unit): nearest
\* integer to num/den, ties to the even one.  den > 0.
round(num, den) ==
    LET q == num \div den
        r == num % den
    IN  IF 2 * r < den THEN q
        ELSE IF 2 * r > den THEN q + 1
        ELSE IF q % 2 = 0 THEN q ELSE q + 1

(***************************************************************************)
(* class QualityScorer: constants                                          *)
(***************************************************************************)
MAJOR == "Major"
MINOR == "Minor"

GradeA == "A"
GradeB == "B"
GradeC == "C"
REJECT == "Ret"
QualityGrade == {GradeA, GradeB, GradeC, REJECT}

\* INCH_9_CM = 23.0, in tenths of a cm
INCH_9_CM == 230

\* FOUR_POINT_RULES, thresholds in tenths of a cm; inf marks float('inf')
FOUR_POINT_RULES ==
    << [threshold |-> 75,  inf |-> FALSE, points |-> 1],
       [threshold |-> 150, inf |-> FALSE, points |-> 2],
       [threshold |-> 230, inf |-> FALSE, points |-> 3],
       [threshold |-> 0,   inf |-> TRUE,  points |-> 4] >>

\* DEFECT_SEVERITY.get(class_name, DefectSeverity.MINOR)
DEFECT_SEVERITY(class_name) ==
    CASE class_name = "Hole"  -> MAJOR
      [] class_name = "Stain" -> MAJOR
      [] class_name = "Line"  -> MINOR
      [] class_name = "Knot"  -> MINOR
      [] OTHER                -> MINOR

\* GRADE_THRESHOLDS in dict order, in whole points per 100 m2
GRADE_THRESHOLDS ==
    << [grade |-> GradeA, min_pts |-> 0,  max_pts |-> 20, inf |-> FALSE],
       [grade |-> GradeB, min_pts |-> 20, max_pts |-> 40, inf |-> FALSE],
       [grade |-> GradeC, min_pts |-> 40, max_pts |-> 60, inf |-> FALSE],
       [grade |-> REJECT, min_pts |-> 60, max_pts |-> 0,  inf |-> TRUE] >>

GRADE_DESCRIPTIONS(grade) ==
    CASE grade = GradeA -> "Birinci Kalite"
      [] grade = GradeB -> "Ikinci Kalite"
      [] grade = GradeC -> "Ucuncu Kalite"
      [] OTHER          -> "Ret"

\* QualityScorer.__init__
QualityScorer(max_points_per_100m2, use_major_minor_system) ==
    [max_points_per_100m2   |-> max_points_per_100m2,
     use_major_minor_system |-> use_major_minor_system]

(***************************************************************************)
(* class QualityScorer: methods                                            *)
(***************************************************************************)
get_defect_severity_ge(class_name, length_cm) ==
    IF length_cm >= INCH_9_CM THEN MAJOR ELSE DEFECT_SEVERITY(class_name)

get_defect_severity(class_name, length_cm) ==
    LET base_severity == DEFECT_SEVERITY(class_name)
    IN  IF length_cm > INCH_9_CM THEN MAJOR ELSE base_severity

\* the for loop over FOUR_POINT_RULES from rule k on; 4 when no rule matches
RECURSIVE FourPointFrom(_, _)
FourPointFrom(length_cm, k) ==
    IF k > Len(FOUR_POINT_RULES)
    THEN [points |-> 4, desc |-> [kind |-> "9+", length_cm |-> length_cm]]
    ELSE LET rule == FOUR_POINT_RULES[k]
         IN  IF rule.inf \/ length_cm <= rule.threshold
             THEN [points |-> rule.points,
                   desc   |-> [kind |-> CASE rule.points = 1 -> "0-3"
                                          [] rule.points = 2 -> "3-6"
                                          [] rule.points = 3 -> "6-9"
                                          [] OTHER           -> "9+",
                               length_cm |-> length_cm]]
             ELSE FourPointFrom(length_cm, k + 1)

RECURSIVE FourPointFrom_lt(_, _)
FourPointFrom_lt(length_cm, k) ==
    IF k > Len(FOUR_POINT_RULES)
    THEN [points |-> 4, desc |-> [kind |-> "9+", length_cm |-> length_cm]]
    ELSE LET rule == FOUR_POINT_RULES[k]
         IN  IF rule.inf \/ length_cm < rule.threshold
             THEN [points |-> rule.points,
                   desc   |-> [kind |-> "tier", length_cm |-> length_cm]]
             ELSE FourPointFrom_lt(length_cm, k + 1)

calculate_four_point_score_lt(length_cm) == FourPointFrom_lt(length_cm, 1)

\* points as the int the rule table holds
calculate_four_point_score(length_cm) == FourPointFrom(length_cm, 1)

calculate_major_minor_score_nocap(length_cm, severity) ==
    LET increments == Max(1, 0 - ((0 - int(length_cm)) \div int(INCH_9_CM)))
    IN  [points     |-> IF severity = MAJOR THEN increments * 1000
                                            ELSE increments * 250,
         desc       |-> [kind |-> severity, increments |-> increments,
                         length_cm |-> length_cm]]

\* calculate_major_minor_score without the floor of one increment
calculate_major_minor_score_nomax(length_cm, severity) ==
    LET increments == 0 - ((0 - int(length_cm)) \div int(INCH_9_CM))
        points     == IF severity = MAJOR THEN increments * 1000
                                          ELSE increments * 250
    IN  [points |-> Min(points, 4000),
         desc   |-> [kind |-> severity, increments |-> increments,
                     length_cm |-> length_cm]]

\* points in thousandths
calculate_major_minor_score(length_cm, severity) ==
    LET increments == Max(1, 0 - ((0 - int(length_cm)) \div int(INCH_9_CM)))
        points     == IF severity = MAJOR THEN increments * 1000
                                          ELSE increments * 250
        desc       == [kind |-> severity, increments |-> increments,
                       length_cm |-> length_cm]
    IN  [points |-> Min(points, 4000), desc |-> desc]

\* points in thousandths in both modes
calculate_defect_points(self, class_name, length_cm) ==
    LET severity == get_defect_severity(class_name, length_cm)
        r == IF self.use_major_minor_system
             THEN calculate_major_minor_score(length_cm, severity)
             ELSE LET fp == calculate_four_point_score(length_cm)
                  IN  [points |-> fp.points * 1000, desc |-> fp.desc]
    IN  [points |-> r.points, severity |-> severity, description |-> r.desc]

\* the for loop over GRADE_THRESHOLDS.items() from entry k on
RECURSIVE GradeFrom(_, _)
GradeFrom(points_per_100m2, k) ==
    IF k > Len(GRADE_THRESHOLDS) THEN REJECT
    ELSE LET t == GRADE_THRESHOLDS[k]
         IN  IF t.min_pts * 1000 <= points_per_100m2
                /\ (t.inf \/ points_per_100m2 < t.max_pts * 1000)
             THEN t.grade
             ELSE GradeFrom(points_per_100m2, k + 1)

RECURSIVE GradeFrom_le(_, _)
GradeFrom_le(points_per_100m2, k) ==
    IF k > Len(GRADE_THRESHOLDS) THEN REJECT
    ELSE LET t == GRADE_THRESHOLDS[k]
         IN  IF t.min_pts * 1000 <= points_per_100m2
                /\ (t.inf \/ points_per_100m2 <= t.max_pts * 1000)
             THEN t.grade
             ELSE GradeFrom_le(points_per_100m2, k + 1)

calculate_grade_le(points_per_100m2) == GradeFrom_le(points_per_100m2, 1)

\* points_per_100m2 in thousandths
calculate_grade(points_per_100m2) == GradeFrom(points_per_100m2, 1)

(***************************************************************************)
(* QualityScorer.score_fabric                                              *)
(***************************************************************************)
\* dict.get(key, default) on a defect record
Get(d, key, default) == IF key \in DOMAIN d THEN d[key] ELSE default

NewSummaryEntry == [count |-> 0, points |-> 0, major_count |-> 0, minor_count |-> 0]

\* summary is an insertion-ordered dict: keys in insertion order, data by key
EmptySummary == [keys |-> <<>>, data |-> <<>>]

InSummary(s, class_name) == \E k \in 1..Len(s.keys) : s.keys[k] = class_name

\* the entry added last, whatever the class
SummaryIndex_last(s, class_name) == Len(s.keys)

SummaryIndex(s, class_name) == CHOOSE k \in 1..Len(s.keys) : s.keys[k] = class_name

\* accumulators of the loop: [defect_scores, total_points, major_points,
\* minor_points, summary]
ZeroAcc == [defect_scores |-> <<>>, total_points |-> 0, major_points |-> 0,
            minor_points |-> 0, summary |-> EmptySummary]

LoopBody_dropminor(self, acc, defect) ==
    LET class_name == Get(defect, "class_name", "Unknown")
        length_cm  == Get(defect, "length_cm", 0)
        r          == calculate_defect_points(self, class_name, length_cm)
    IN  [acc EXCEPT
           !.total_points  = @ + r.points,
           !.major_points  = IF r.severity = MAJOR THEN @ + r.points ELSE @,
           !.defect_scores = Append(@, [defect_class |-> class_name,
                                        severity     |-> r.severity,
                                        length_cm    |-> length_cm,
                                        points       |-> r.points,
                                        description  |-> r.description])]

\* one iteration of "for defect in defects"
LoopBody(self, acc, defect) ==
    LET class_name == Get(defect, "class_name", "Unknown")
        length_cm  == Get(defect, "length_cm", 0)
        r          == calculate_defect_points(self, class_name, length_cm)
        s0         == IF InSummary(acc.summary, class_name)
                      THEN acc.summary
                      ELSE [keys |-> Append(acc.summary.keys, class_name),
                            data |-> Append(acc.summary.data, NewSummaryEntry)]
        k          == SummaryIndex(s0, class_name)
        e0         == s0.data[k]
        e1         == [e0 EXCEPT
                         !.count       = @ + 1,
                         !.points      = @ + r.points,
                         !.major_count = IF r.severity = MAJOR THEN @ + 1 ELSE @,
                         !.minor_count = IF r.severity = MAJOR THEN @ ELSE @ + 1]
    IN  [defect_scores |-> Append(acc.defect_scores,
                                  [defect_class |-> class_name,
                                   severity     |-> r.severity,
                                   length_cm    |-> length_cm,
                                   points       |-> r.points,
                                   description  |-> r.description]),
         total_points  |-> acc.total_points + r.points,
         major_points  |-> IF r.severity = MAJOR
                           THEN acc.major_points + r.points ELSE acc.major_points,
         minor_points  |-> IF r.severity = MAJOR
                           THEN acc.minor_points ELSE acc.minor_points + r.points,
         summary       |-> [s0 EXCEPT !.data[k] = e1]]

\* the loop over the first n defects
RECURSIVE LoopPrefix(_, _, _)
LoopPrefix(self, ds, n) ==
    IF n = 0 THEN ZeroAcc ELSE LoopBody(self, LoopPrefix(self, ds, n - 1), ds[n])

\* the density with the guard fabric_area_m2 != 0 in place of > 0
Density_nonzero(total, area) ==
    IF area # 0 THEN (total * 100000) \div area ELSE 0

\* lines 309-313: unrounded density in thousandths (rounded down), and the
\* same value as round(points_per_100m2, 2) sees it, in hundredths
Density(total, area) ==
    IF area > 0 THEN (total * 100000) \div area ELSE 0

DensityRounded(total, area) ==
    IF area > 0 THEN round(total * 10000, area) ELSE 0

\* lines 309-329: the QualityReport built from the accumulators
Report(self, acc, area, width) ==
    LET points_per_100m2 == Density(acc.total_points, area)
        grade            == calculate_grade(points_per_100m2)
    IN  [total_points      |-> round(acc.total_points, 10),
         major_points      |-> round(acc.major_points, 10),
         minor_points      |-> round(acc.minor_points, 10),
         points_per_100m2  |-> DensityRounded(acc.total_points, area),
         grade             |-> grade,
         grade_description |-> GRADE_DESCRIPTIONS(grade),
         defect_scores     |-> acc.defect_scores,
         summary           |-> acc.summary,
         fabric_area_m2    |-> area,
         fabric_width_cm   |-> width]

(***************************************************************************)
(* class PricingCalculator                                                 *)
(***************************************************************************)
\* an optional number: None, or Some(v)
Some(v) == [val |-> v]

\* Python truthiness of an optional number, as "x or y" tests it
Truthy(x) == x # None /\ x.val # 0

\* DEFAULT_GRADE_MULTIPLIERS, in twentieths, keyed by the grade's value
DEFAULT_GRADE_MULTIPLIERS == [A |-> 20, B |-> 17, C |-> 14, Ret |-> 0]

\* PricingCalculator.__init__; grade_multipliers is None or a table
PricingCalculator(base_price_per_m2, currency, grade_multipliers, reject_price_per_m2) ==
    [base_price_per_m2   |-> base_price_per_m2,
     currency            |-> currency,
     grade_multipliers   |-> IF grade_multipliers = None
                                \/ DOMAIN grade_multipliers = {}
                             THEN DEFAULT_GRADE_MULTIPLIERS
                             ELSE grade_multipliers,
     reject_price_per_m2 |-> reject_price_per_m2]

\* amounts are exact fractions until the PricingResult rounds them:
\*   adjusted_price_per_m2  in 1/20 of a hundredth
\*   total_base_price       in 1/1000 of a hundredth
\*   total_adjusted_price   in 1/20000 of a hundredth
\*   discount_percentage    in 1/20 of a tenth of a percent
\*   discount_amount        in 1/20000 of a hundredth
calculate_price_noarea(self, quality_report, custom_base_price) ==
    LET base_price == IF Truthy(custom_base_price) THEN custom_base_price.val
                      ELSE self.base_price_per_m2
        fabric_area == quality_report.fabric_area_m2
        grade       == quality_report.grade
        multiplier  == Get(self.grade_multipliers, grade, 0)
        adjusted_price_per_m2 == IF grade = REJECT
                                 THEN self.reject_price_per_m2 * 20
                                 ELSE base_price * multiplier
        total_base_price      == base_price * fabric_area
        total_adjusted_price  == adjusted_price_per_m2 * fabric_area
    IN  [base_price_per_m2     |-> base_price,
         adjusted_price_per_m2 |-> round(adjusted_price_per_m2, 20),
         total_base_price      |-> round(total_base_price, 1000),
         total_adjusted_price  |-> round(total_adjusted_price, 20000),
         discount_percentage   |-> round((20 - multiplier) * 1000, 20),
         discount_amount       |-> round(total_base_price * 20
                                         - adjusted_price_per_m2 * 1000, 20000),
         fabric_area_m2        |-> fabric_area,
         quality_grade         |-> grade,
         currency              |-> self.currency]

\* calculate_price without the scrap price: the Reject branch left out
calculate_price_noscrap(self, quality_report, custom_base_price) ==
    LET base_price == IF Truthy(custom_base_price) THEN custom_base_price.val
                      ELSE self.base_price_per_m2
        fabric_area == quality_report.fabric_area_m2
        grade       == quality_report.grade
        multiplier  == Get(self.grade_multipliers, grade, 0)
        adjusted_price_per_m2 == base_price * multiplier
        total_base_price      == base_price * fabric_area
        total_adjusted_price  == adjusted_price_per_m2 * fabric_area
    IN  [base_price_per_m2     |-> base_price,
         adjusted_price_per_m2 |-> round(adjusted_price_per_m2, 20),
         total_base_price      |-> round(total_base_price, 1000),
         total_adjusted_price  |-> round(total_adjusted_price, 20000),
         discount_percentage   |-> round((20 - multiplier) * 1000, 20),
         discount_amount       |-> round(total_base_price * 20
                                         - total_adjusted_price, 20000),
         fabric_area_m2        |-> fabric_area,
         quality_grade         |-> grade,
         currency              |-> self.currency]

calculate_price(self, quality_report, custom_base_price) ==
    LET base_price == IF Truthy(custom_base_price) THEN custom_base_price.val
                      ELSE self.base_price_per_m2
        fabric_area == quality_report.fabric_area_m2
        grade       == quality_report.grade
        multiplier  == Get(self.grade_multipliers, grade, 0)
        adjusted_price_per_m2 == IF grade = REJECT
                                 THEN self.reject_price_per_m2 * 20
                                 ELSE base_price * multiplier
        total_base_price      == base_price * fabric_area
        total_adjusted_price  == adjusted_price_per_m2 * fabric_area
        discount_percentage   == (20 - multiplier) * 1000
        discount_amount       == total_base_price * 20 - total_adjusted_price
    IN  [base_price_per_m2     |-> base_price,
         adjusted_price_per_m2 |-> round(adjusted_price_per_m2, 20),
         total_base_price      |-> round(total_base_price, 1000),
         total_adjusted_price  |-> round(total_adjusted_price, 20000),
         discount_percentage   |-> round(discount_percentage, 20),
         discount_amount       |-> round(discount_amount, 20000),
         fabric_area_m2        |-> fabric_area,
         quality_grade         |-> grade,
         currency              |-> self.currency]

\* calculate_price_simple always taking the instance's base price
calculate_price_simple_nocustom(self, grade, fabric_area_m2_, custom_base_price) ==
    LET base_price == self.base_price_per_m2
        multiplier == Get(self.grade_multipliers, grade, 0)
        adjusted_price_per_m2 == IF grade = REJECT
                                 THEN self.reject_price_per_m2 * 20
                                 ELSE base_price * multiplier
        total_base_price      == base_price * fabric_area_m2_
        total_adjusted_price  == adjusted_price_per_m2 * fabric_area_m2_
    IN  [base_price_per_m2     |-> base_price,
         adjusted_price_per_m2 |-> round(adjusted_price_per_m2, 20),
         total_base_price      |-> round(total_base_price, 1000),
         total_adjusted_price  |-> round(total_adjusted_price, 20000),
         discount_percentage   |-> round((20 - multiplier) * 1000, 20),
         discount_amount       |-> round(total_base_price * 20
                                         - total_adjusted_price, 20000),
         fabric_area_m2        |-> fabric_area_m2_,
         quality_grade         |-> grade,
         currency              |-> self.currency]

calculate_price_simple(self, grade, fabric_area_m2_, custom_base_price) ==
    LET base_price == IF Truthy(custom_base_price) THEN custom_base_price.val
                      ELSE self.base_price_per_m2
        multiplier == Get(self.grade_multipliers, grade, 0)
        adjusted_price_per_m2 == IF grade = REJECT
                                 THEN self.reject_price_per_m2 * 20
                                 ELSE base_price * multiplier
        total_base_price      == base_price * fabric_area_m2_
        total_adjusted_price  == adjusted_price_per_m2 * fabric_area_m2_
        discount_percentage   == (20 - multiplier) * 1000
        discount_amount       == total_base_price * 20 - total_adjusted_price
    IN  [base_price_per_m2     |-> base_price,
         adjusted_price_per_m2 |-> round(adjusted_price_per_m2, 20),
         total_base_price      |-> round(total_base_price, 1000),
         total_adjusted_price  |-> round(total_adjusted_price, 20000),
         discount_percentage   |-> round(discount_percentage, 20),
         discount_amount       |-> round(discount_amount, 20000),
         fabric_area_m2        |-> fabric_area_m2_,
         quality_grade         |-> grade,
         currency              |-> self.currency]

(***************************************************************************)
(* Inputs                                                                  *)
(***************************************************************************)
\* defect records the detector hands over; the last one lacks its length
DefectPool ==
    { [class_name |-> "Hole", length_cm |-> 50],
      [class_name |-> "Line", length_cm |-> 300],
      [class_name |-> "Knot", length_cm |-> 30],
      [class_name |-> "Hole", length_cm |-> 1000],
      [class_name |-> "Line", length_cm |-> 235],
      [class_name |-> "Tear"] }

RECURSIVE SeqsUpTo(_, _)
SeqsUpTo(S, n) ==
    IF n = 0 THEN {<<>>}
    ELSE LET shorter == SeqsUpTo(S, n - 1)
         IN  shorter \cup {Append(q, x) : q \in shorter, x \in S}

\* -1, 0, 0.77, 2, 5.001 and 10 m2
Areas == {0 - 1000, 0, 770, 2000, 5001, 10000}

\* custom_base_price: absent, 0 and 10.06
CustomPrices == {None, Some(0), Some(1006)}

\* reject_price_per_m2: the default 0.0 and a scrap price of 10.00
RejectPrices == {0, 1000}

Classes == {"Hole", "Stain", "Line", "Knot", "Tear"}
Lengths == (0 - MaxNegLength)..MaxLength
Severities == {MAJOR, MINOR}
Densities == 0..MaxDensity

(***************************************************************************)
(* The pipeline of app.py: score_fabric, then calculate_price              *)
(***************************************************************************)
NoCall == [fn |-> "none"]

Acc == [defect_scores |-> defect_scores, total_points |-> total_points,
        major_points |-> major_points, minor_points |-> minor_points,
        summary |-> summary]

SetAcc(acc) ==
    /\ defect_scores' = acc.defect_scores
    /\ total_points'  = acc.total_points
    /\ major_points'  = acc.major_points
    /\ minor_points'  = acc.minor_points
    /\ summary'       = acc.summary

Init ==
    /\ scorer \in {QualityScorer(40, m) : m \in BOOLEAN}
    /\ calculator \in {PricingCalculator(10000, "TL", None, rp) : rp \in RejectPrices}
    /\ defects \in SeqsUpTo(DefectPool, MaxDefects)
    /\ fabric_area_m2 \in Areas
    /\ fabric_width_cm = 1500
    /\ pc = "idle"
    /\ defect_scores = <<>>
    /\ total_points = 0
    /\ major_points = 0
    /\ minor_points = 0
    /\ summary = EmptySummary
    /\ quality = None
    /\ pricing = None
    /\ call = NoCall

\* score_fabric entered with the three totals kept from the call before
ScoreFabricEnter_keeptotals ==
    /\ pc = "idle"
    /\ defect_scores' = <<>>
    /\ summary' = EmptySummary
    /\ pc' = "loop"
    /\ UNCHANGED <<scorer, calculator, defects, fabric_area_m2, fabric_width_cm,
                   total_points, major_points, minor_points,
                   quality, pricing, call>>

\* score_fabric is entered: lines 268-272
ScoreFabricEnter ==
    /\ pc = "idle"
    /\ SetAcc(ZeroAcc)
    /\ pc' = "loop"
    /\ UNCHANGED <<scorer, calculator, defects, fabric_area_m2, fabric_width_cm,
                   quality, pricing, call>>

\* one iteration of the loop: lines 274-307
ScoreFabricLoop ==
    /\ pc = "loop"
    /\ Len(defect_scores) < Len(defects)
    /\ SetAcc(LoopBody(scorer, Acc, defects[Len(defect_scores) + 1]))
    /\ UNCHANGED <<scorer, calculator, defects, fabric_area_m2, fabric_width_cm,
                   pc, quality, pricing, call>>

\* the loop is over: lines 309-329
ScoreFabricReturn ==
    /\ pc = "loop"
    /\ Len(defect_scores) = Len(defects)
    /\ quality' = Report(scorer, Acc, fabric_area_m2, fabric_width_cm)
    /\ pc' = "scored"
    /\ UNCHANGED <<scorer, calculator, defects, fabric_area_m2, fabric_width_cm,
                   defect_scores, total_points, major_points, minor_points,
                   summary, pricing, call>>

\* calculator.calculate_price(quality), with or without a custom base price
CalculatePrice ==
    /\ pc = "scored"
    /\ \E custom_base_price \in CustomPrices :
          pricing' = calculate_price(calculator, quality, custom_base_price)
    /\ pc' = "priced"
    /\ UNCHANGED <<scorer, calculator, defects, fabric_area_m2, fabric_width_cm,
                   defect_scores, total_points, major_points, minor_points,
                   summary, quality, call>>

Next ==
    \/ ScoreFabricEnter
    \/ ScoreFabricLoop
    \/ ScoreFabricReturn
    \/ CalculatePrice

Spec == Init /\ [][Next]_vars

(***************************************************************************)
(* Direct calls of the scorer's methods on one QualityScorer instance      *)
(***************************************************************************)
InitUnit ==
    /\ scorer \in {QualityScorer(40, m) : m \in BOOLEAN}
    /\ calculator = PricingCalculator(10000, "TL", None, 0)
    /\ defects = <<>>
    /\ fabric_area_m2 = 0
    /\ fabric_width_cm = 1500
    /\ pc = "unit"
    /\ defect_scores = <<>>
    /\ total_points = 0
    /\ major_points = 0
    /\ minor_points = 0
    /\ summary = EmptySummary
    /\ quality = None
    /\ pricing = None
    /\ call = NoCall

\* no call is in progress
Ready == pc = "unit" /\ call = NoCall

Returned(c) ==
    /\ call' = c
    /\ UNCHANGED <<scorer, calculator, defects, fabric_area_m2, fabric_width_cm,
                   pc, defect_scores, total_points, major_points, minor_points,
                   summary, quality, pricing>>

CallGetDefectSeverity ==
    /\ Ready
    /\ \E class_name \in Classes, length_cm \in Lengths :
       Returned([fn |-> "get_defect_severity", class_name |-> class_name,
                 length_cm |-> length_cm,
                 ret |-> get_defect_severity(class_name, length_cm)])

CallFourPointScore ==
    /\ Ready
    /\ \E length_cm \in Lengths :
       Returned([fn |-> "calculate_four_point_score", length_cm |-> length_cm,
                 ret |-> calculate_four_point_score(length_cm)])

CallMajorMinorScore ==
    /\ Ready
    /\ \E length_cm \in Lengths, severity \in Severities :
       Returned([fn |-> "calculate_major_minor_score", length_cm |-> length_cm,
                 severity |-> severity,
                 ret |-> calculate_major_minor_score(length_cm, severity)])

CallDefectPoints ==
    /\ Ready
    /\ \E class_name \in Classes, length_cm \in Lengths :
       Returned([fn |-> "calculate_defect_points", class_name |-> class_name,
                 length_cm |-> length_cm,
                 ret |-> calculate_defect_points(scorer, class_name, length_cm)])

CallGrade ==
    /\ Ready
    /\ \E points_per_100m2 \in Densities :
       Returned([fn |-> "calculate_grade", points_per_100m2 |-> points_per_100m2,
                 ret |-> calculate_grade(points_per_100m2)])

\* a defect dict with or without each of its two keys
DefectRecord(has_class, class_name, has_length, length_cm) ==
    [key \in (IF has_class THEN {"class_name"} ELSE {})
             \cup (IF has_length THEN {"length_cm"} ELSE {})
       |-> IF key = "class_name" THEN class_name ELSE length_cm]

\* score_fabric([defect], 10.0) on one record, degenerate ones included
CallScoreFabric ==
    /\ Ready
    /\ \E has_class \in BOOLEAN, has_length \in BOOLEAN,
          class_name \in Classes, length_cm \in Lengths :
       /\ has_class \/ class_name = "Hole"
       /\ has_length \/ length_cm = 0
       /\ LET defect == DefectRecord(has_class, class_name, has_length, length_cm)
          IN  Returned([fn |-> "score_fabric", defects |-> <<defect>>,
                        fabric_area_m2 |-> 10000,
                        ret |-> Report(scorer, LoopPrefix(scorer, <<defect>>, 1),
                                       10000, fabric_width_cm)])

NextUnit ==
    \/ CallGetDefectSeverity
    \/ CallFourPointScore
    \/ CallMajorMinorScore
    \/ CallDefectPoints
    \/ CallGrade
    \/ CallScoreFabric

SpecUnit == InitUnit /\ [][NextUnit]_vars

(***************************************************************************)
(* The analysis branch of app.py's main(): lines 83-114.  The detector's   *)
(* output is the input; the scorer is built and called, the calculator is  *)
(* built from keyword arguments, calculate_price is called and the metrics *)
(* are read off the PricingResult.  An exception ends the run in           *)
(* pc = "error" with the exception's type in call.                         *)
(***************************************************************************)
\* the density policy the application configures: discount_multiplier = 0.5
\* (in tenths) and max_discount_rate = 0.70 (in ten-thousandths)
discount_multiplier == 5
max_discount_rate == 7000

\* the keyword parameters PricingCalculator.__init__ declares
InitParams == {"base_price_per_m2", "currency", "grade_multipliers",
               "reject_price_per_m2"}

\* the fields of the dataclass PricingResult
PricingResultFields == {"base_price_per_m2", "adjusted_price_per_m2",
                        "total_base_price", "total_adjusted_price",
                        "discount_percentage", "discount_amount",
                        "fabric_area_m2", "quality_grade", "currency"}

\* the attributes the metrics of app.py read from the PricingResult
ReportedAttributes == {"total_price", "discount_rate"}

\* a legacy table with a multiplier above 1 (A: 1.05)
SurchargeMultipliers == [A |-> 21, B |-> 17, C |-> 14, Ret |-> 0]

\* keyword arguments of a PricingCalculator(...) call: the call of app.py
\* (density policy) and calls with the legacy parameters
ConstructorCalls ==
    {[base_price_per_m2 |-> 10000, discount_multiplier |-> discount_multiplier,
      max_discount_rate |-> max_discount_rate],
     [base_price_per_m2 |-> 10000],
     [base_price_per_m2 |-> 10000, grade_multipliers |-> DEFAULT_GRADE_MULTIPLIERS,
      reject_price_per_m2 |-> 1000],
     [base_price_per_m2 |-> 10000, grade_multipliers |-> SurchargeMultipliers]}

\* what the detector hands over: records with both fields
DetectedDefects == {d \in DefectPool : DOMAIN d = {"class_name", "length_cm"}}

\* fabric_area = (fabric_width * fabric_length) / 10000 is positive
AppAreas == {a \in Areas : a > 0}

Raised(type) == [fn |-> "raise", type |-> type]

InitApp ==
    /\ scorer = QualityScorer(40, TRUE)
    /\ calculator = None
    /\ defects \in SeqsUpTo(DetectedDefects, MaxDefects)
    /\ fabric_area_m2 \in AppAreas
    /\ fabric_width_cm = 1500
    /\ pc = "idle"
    /\ defect_scores = <<>>
    /\ total_points = 0
    /\ major_points = 0
    /\ minor_points = 0
    /\ summary = EmptySummary
    /\ quality = None
    /\ pricing = None
    /\ call = NoCall

\* calculator = PricingCalculator(**kwargs): a keyword the signature does
\* not declare raises TypeError before the body runs
ConstructCalculator ==
    /\ pc = "scored"
    /\ calculator = None
    /\ \E kwargs \in ConstructorCalls :
          IF DOMAIN kwargs \subseteq InitParams
          THEN /\ calculator' = PricingCalculator(
                                   Get(kwargs, "base_price_per_m2", 10000),
                                   Get(kwargs, "currency", "TL"),
                                   Get(kwargs, "grade_multipliers", None),
                                   Get(kwargs, "reject_price_per_m2", 0))
               /\ pc' = "constructed"
               /\ call' = call
          ELSE /\ calculator' = calculator
               /\ pc' = "error"
               /\ call' = Raised("TypeError")
    /\ UNCHANGED <<scorer, defects, fabric_area_m2, fabric_width_cm,
                   defect_scores, total_points, major_points, minor_points,
                   summary, quality, pricing>>

\* pricing = calculator.calculate_price(quality)
AppCalculatePrice ==
    /\ pc = "constructed"
    /\ pricing' = calculate_price(calculator, quality, None)
    /\ pc' = "app_priced"
    /\ UNCHANGED <<scorer, calculator, defects, fabric_area_m2, fabric_width_cm,
                   defect_scores, total_points, major_points, minor_points,
                   summary, quality, call>>

\* the metrics read pricing.total_price and pricing.discount_rate: an
\* attribute the dataclass does not have raises AttributeError
AppReport ==
    /\ pc = "app_priced"
    /\ IF ReportedAttributes \subseteq PricingResultFields
       THEN pc' = "reported" /\ call' = call
       ELSE pc' = "error" /\ call' = Raised("AttributeError")
    /\ UNCHANGED <<scorer, calculator, defects, fabric_area_m2, fabric_width_cm,
                   defect_scores, total_points, major_points, minor_points,
                   summary, quality, pricing>>

NextApp ==
    \/ ScoreFabricEnter
    \/ ScoreFabricLoop
    \/ ScoreFabricReturn
    \/ ConstructCalculator
    \/ AppCalculatePrice
    \/ AppReport

SpecApp == InitApp /\ [][NextApp]_vars

(***************************************************************************)
(* Repeated calls on the same QualityScorer and PricingCalculator: a       *)
(* caller scores and prices a fabric, optionally scores and prices another *)
(* defect list, then repeats the first calls with the same arguments.      *)
(* call holds what the caller kept of the first round.                     *)
(***************************************************************************)
\* the defect list of the round in between
OtherDefects == <<[class_name |-> "Stain", length_cm |-> 120]>>

\* 0.77 and 5.001 m2
RepeatAreas == {770, 5001}

InitRepeat ==
    /\ scorer \in {QualityScorer(40, m) : m \in BOOLEAN}
    /\ calculator = PricingCalculator(10000, "TL", None, 1000)
    /\ defects \in SeqsUpTo(DetectedDefects, MaxDefects)
    /\ fabric_area_m2 \in RepeatAreas
    /\ fabric_width_cm = 1500
    /\ pc = "idle"
    /\ defect_scores = <<>>
    /\ total_points = 0
    /\ major_points = 0
    /\ minor_points = 0
    /\ summary = EmptySummary
    /\ quality = None
    /\ pricing = None
    /\ call = NoCall

\* calculate_price(quality, custom_base_price); the first call's arguments
\* and result are kept, the repeated call gets the first call's arguments
RepeatCalculatePrice ==
    /\ pc = "scored"
    /\ \E custom_base_price \in CustomPrices :
          /\ call.fn = "again" => custom_base_price = call.custom_base_price
          /\ pricing' = calculate_price(calculator, quality, custom_base_price)
          /\ call' = CASE call.fn = "none" ->
                            [fn |-> "first", n |-> 1,
                             custom_base_price |-> custom_base_price,
                             scorer |-> scorer, calculator |-> calculator,
                             defects |-> defects, quality |-> quality,
                             pricing |-> pricing']
                       [] call.fn = "again" -> [call EXCEPT !.fn = "second"]
                       [] OTHER -> call
    /\ pc' = "priced"
    /\ UNCHANGED <<scorer, calculator, defects, fabric_area_m2, fabric_width_cm,
                   defect_scores, total_points, major_points, minor_points,
                   summary, quality>>

\* the caller passes another defect list to the same instances
CallOther ==
    /\ pc = "priced"
    /\ call.fn = "first"
    /\ defects' = OtherDefects
    /\ call' = [call EXCEPT !.fn = "other", !.n = @ + 1]
    /\ pc' = "idle"
    /\ UNCHANGED <<scorer, calculator, fabric_area_m2, fabric_width_cm,
                   defect_scores, total_points, major_points, minor_points,
                   summary, quality, pricing>>

\* the caller repeats the first calls with the first round's arguments
CallAgain ==
    /\ pc = "priced"
    /\ call.fn \in {"first", "other"}
    /\ defects' = call.defects
    /\ call' = [call EXCEPT !.fn = "again", !.n = @ + 1]
    /\ pc' = "idle"
    /\ UNCHANGED <<scorer, calculator, fabric_area_m2, fabric_width_cm,
                   defect_scores, total_points, major_points, minor_points,
                   summary, quality, pricing>>

NextRepeat ==
    \/ ScoreFabricEnter
    \/ ScoreFabricLoop
    \/ ScoreFabricReturn
    \/ RepeatCalculatePrice
    \/ CallOther
    \/ CallAgain

SpecRepeat == InitRepeat /\ [][NextRepeat]_vars

(***************************************************************************)
(* Claims about the scorer's methods, checked under SpecUnit               *)
(***************************************************************************)
\* ceil(a / b) for b > 0
Ceil(a, b) == 0 - ((0 - a) \div b)

\* C2: in Major/Minor mode calculate_major_minor_score uses
\* increments = max(1, ceil(length_cm / 23.0)) for every length, non-integer
\* lengths included, and returns min(4.0, increments x 1.0) for Major and
\* min(4.0, increments x 0.25) for Minor.
C2_CeilIncrements ==
    call.fn = "calculate_major_minor_score" =>
        LET increments == Max(1, Ceil(call.length_cm, 230))
        IN  /\ call.ret.desc.increments = increments
            /\ call.ret.points = Min(4000, increments *
                                     (IF call.severity = MAJOR THEN 1000 ELSE 250))

\* the bands of the claim, density in thousandths
BandOf(p) == IF p < 20000 THEN GradeA
             ELSE IF p < 40000 THEN GradeB
             ELSE IF p < 60000 THEN GradeC ELSE REJECT

\* A best, Reject worst
GradeRank(g) == CASE g = GradeA -> 3 [] g = GradeB -> 2 [] g = GradeC -> 1 [] OTHER -> 0

C5_SeverityRule ==
    call.fn = "get_defect_severity" =>
        call.ret = (IF call.length_cm > 230 THEN MAJOR
                    ELSE IF call.class_name \in {"Hole", "Stain"} THEN MAJOR
                    ELSE MINOR)

C5_Witness ==
    /\ call.fn = "get_defect_severity"
    /\ call.class_name = "Line"
    /\ call.length_cm = 230
    /\ call.ret = MINOR

\* the tiers of the claim, length in tenths of a cm
TierOf(length_cm) == IF length_cm <= 75 THEN 1
                     ELSE IF length_cm <= 150 THEN 2
                     ELSE IF length_cm <= 230 THEN 3 ELSE 4

\* C6: in 4-Point mode a defect's points depend only on its length (the same
\* for every class): <= 7.5 -> 1, <= 15 -> 2, <= 23 -> 3, > 23 -> 4, the
\* boundary lengths in the lower tier; the points are in {1,2,3,4} and do not
\* decrease when the length grows.
C6_FourPointTiers ==
    /\ (call.fn = "calculate_defect_points" /\ ~scorer.use_major_minor_system) =>
          /\ call.ret.points = TierOf(call.length_cm) * 1000
          /\ \A c \in Classes :
                calculate_defect_points(scorer, c, call.length_cm).points
                    = call.ret.points
          /\ call.length_cm > 0 =>
                calculate_defect_points(scorer, call.class_name,
                                        call.length_cm - 1).points <= call.ret.points
    /\ call.fn = "calculate_four_point_score" =>
          /\ call.ret.points = TierOf(call.length_cm)
          /\ call.ret.points \in {1, 2, 3, 4}

C6_Witness ==
    /\ call.fn = "calculate_defect_points"
    /\ ~scorer.use_major_minor_system
    /\ call.class_name = "Hole"
    /\ call.length_cm = 150
    /\ call.ret.points = 2000
    /\ call.ret.severity = MAJOR

\* C7: in Major/Minor mode, for every class and every length (zero, negative
\* and large ones included) the increments are >= 1 and the points of the
\* single defect satisfy 0.25 <= points <= 4.0.
C7_PointsClamped ==
    /\ call.fn = "calculate_major_minor_score" =>
          /\ call.ret.desc.increments >= 1
          /\ call.ret.points >= 250
          /\ call.ret.points <= 4000
    /\ (call.fn = "calculate_defect_points" /\ scorer.use_major_minor_system) =>
          /\ call.ret.description.increments >= 1
          /\ call.ret.points >= 250
          /\ call.ret.points <= 4000

C7_Witness ==
    /\ call.fn = "calculate_defect_points"
    /\ scorer.use_major_minor_system
    /\ call.length_cm > 920
    /\ call.ret.description.increments > 4
    /\ call.ret.points = 4000

\* the points the claim gives a defect of length <= 0, in thousandths
DegeneratePoints(self, class_name) ==
    IF self.use_major_minor_system
    THEN (IF class_name \in {"Hole", "Stain"} THEN 1000 ELSE 250)
    ELSE 1000

\* C16: scoring does not fail on degenerate defect records, in both modes: a
\* record with missing fields is scored as class "Unknown" with length 0,
\* and a defect with a negative length gets the severity and the points of
\* the same class with length 0 (one increment in Major/Minor mode, 1 point
\* in 4-Point mode).
C16_DegenerateRecords ==
    /\ call.fn = "score_fabric" =>
          LET defect     == call.defects[1]
              class_name == IF "class_name" \in DOMAIN defect
                            THEN defect.class_name ELSE "Unknown"
              length_cm  == IF "length_cm" \in DOMAIN defect
                            THEN defect.length_cm ELSE 0
              score      == call.ret.defect_scores[1]
              at_zero    == Report(scorer,
                                   LoopPrefix(scorer,
                                      <<[class_name |-> class_name, length_cm |-> 0]>>, 1),
                                   10000, fabric_width_cm).defect_scores[1]
          IN  /\ Len(call.ret.defect_scores) = 1
              /\ score.defect_class = class_name
              /\ score.length_cm = length_cm
              /\ call.ret.summary.keys = <<class_name>>
              /\ length_cm <= 0 =>
                    /\ score.severity = at_zero.severity
                    /\ score.points = at_zero.points
                    /\ score.points = DegeneratePoints(scorer, class_name)
                    /\ call.ret.total_points * 10 = score.points
    /\ (call.fn = "calculate_defect_points" /\ call.length_cm < 0) =>
          LET at_zero == calculate_defect_points(scorer, call.class_name, 0)
          IN  /\ call.ret.severity = at_zero.severity
              /\ call.ret.points = at_zero.points
              /\ call.ret.points = DegeneratePoints(scorer, call.class_name)
              /\ scorer.use_major_minor_system =>
                    call.ret.description.increments = 1

\* a record without class_name and with length -30.0, in Major/Minor mode
C16_Witness ==
    /\ call.fn = "score_fabric"
    /\ DOMAIN call.defects[1] = {"length_cm"}
    /\ call.defects[1].length_cm = 0 - 300
    /\ scorer.use_major_minor_system
    /\ call.ret.defect_scores[1].defect_class = "Unknown"
    /\ call.ret.defect_scores[1].severity = MINOR
    /\ call.ret.defect_scores[1].description.increments = 1
    /\ call.ret.defect_scores[1].points = 250

(***************************************************************************)
(* Claims about score_fabric and calculate_price, checked under Spec       *)
(***************************************************************************)
RECURSIVE SumPoints(_)
SumPoints(scores) ==
    IF scores = <<>> THEN 0
    ELSE scores[Len(scores)].points + SumPoints(SubSeq(scores, 1, Len(scores) - 1))

\* every reordering of the defect list
Reorderings(ds) ==
    {[i \in 1..Len(ds) |-> ds[p[i]]] : p \in Permutations(1..Len(ds))}

\* C1: in both modes and for every defect list, after every processed prefix
\* the accumulators satisfy total == major + minor == sum of the points of
\* the defect scores; the returned report satisfies the same equalities, and
\* scoring any reordering of the list gives the same three totals.
C1_TotalsAgree ==
    /\ pc \in {"loop", "scored", "priced"} =>
          /\ total_points = major_points + minor_points
          /\ total_points = SumPoints(defect_scores)
    /\ quality # None =>
          /\ quality.total_points = quality.major_points + quality.minor_points
          /\ quality.total_points * 10 = SumPoints(quality.defect_scores)
    /\ pc = "scored" =>
          /\ \A ds \in Reorderings(defects) :
                LET r == Report(scorer, LoopPrefix(scorer, ds, Len(ds)),
                                fabric_area_m2, fabric_width_cm)
                IN  /\ r.total_points = quality.total_points
                    /\ r.major_points = quality.major_points
                    /\ r.minor_points = quality.minor_points

C1_Witness ==
    /\ pc = "scored"
    /\ Len(defects) = 3
    /\ defects[1] # defects[3]
    /\ quality.major_points > 0
    /\ quality.minor_points > 0
    /\ quality.total_points = 325

\* the rate of the density policy in ten-thousandths, density in hundredths
DensityRate(points_per_100m2) ==
    Min(round(points_per_100m2 * discount_multiplier, 10), max_discount_rate)

\* C3: the discount rate is min(points_per_100m2 x multiplier / 100,
\* max_discount_rate) and adjusted_price_per_m2 = base x (1 - rate); base 100,
\* density 40, multiplier 0.5, area 10 give adjusted price 80, total_base
\* 1000, total price 800 and discount 200.
C3_DensityDiscount ==
    pc = "priced" =>
        LET rate == DensityRate(quality.points_per_100m2)
        IN  /\ pricing.discount_percentage * 10 = rate
            /\ pricing.adjusted_price_per_m2
                  = round(pricing.base_price_per_m2 * (10000 - rate), 10000)
            /\ (/\ pricing.base_price_per_m2 = 10000
                /\ quality.points_per_100m2 = 4000
                /\ quality.fabric_area_m2 = 10000) =>
                  /\ pricing.adjusted_price_per_m2 = 8000
                  /\ pricing.total_base_price = 100000
                  /\ pricing.total_adjusted_price = 80000
                  /\ pricing.discount_amount = 20000

\* C8: the reported discount is clamped, 0 <= discount_rate <= 0.70; a
\* density of 200 gives exactly 0.70.
C8_DiscountClamped ==
    pc = "priced" =>
        /\ pricing.discount_percentage * 10 >= 0
        /\ pricing.discount_percentage * 10 <= max_discount_rate
        /\ quality.points_per_100m2 = 20000 =>
              pricing.discount_percentage * 10 = max_discount_rate

\* C9: whenever base_price_per_m2 > 0 the reported discount rate equals
\* 1 - adjusted_price_per_m2 / base_price_per_m2, for every grade and every
\* scrap price.  Stated with a tolerance of a tenth of a percent, which
\* covers the 2-decimal rounding of the adjusted price.
C9_RateMatchesPrices ==
    (pc = "priced" /\ pricing.base_price_per_m2 > 0) =>
        LET lhs == pricing.discount_percentage * pricing.base_price_per_m2
            rhs == 1000 * (pricing.base_price_per_m2 - pricing.adjusted_price_per_m2)
        IN  /\ lhs - rhs <= pricing.base_price_per_m2
            /\ rhs - lhs <= pricing.base_price_per_m2

\* C10 as stated: the reported discount_amount equals the reported
\* total_base_price minus the reported total_adjusted_price.
C10_ExactDifference ==
    pc = "priced" =>
        pricing.discount_amount
            = pricing.total_base_price - pricing.total_adjusted_price

\* C10 as amended: each field being rounded on its own, the reported
\* discount_amount differs from total_base_price - total_adjusted_price by at
\* most 0.01.
C10_DifferenceWithinOneCent ==
    pc = "priced" =>
        LET d == pricing.total_base_price - pricing.total_adjusted_price
        IN  /\ pricing.discount_amount - d <= 1
            /\ d - pricing.discount_amount <= 1

C10_Witness ==
    /\ pc = "priced"
    /\ pricing.discount_amount > 0
    /\ pricing.discount_amount
          # pricing.total_base_price - pricing.total_adjusted_price

\* the multipliers of the claim's default table, in twentieths
LegacyTable == [A |-> 20, B |-> 17, C |-> 14]

\* C12: in the legacy grade-multiplier policy the adjusted unit price is
\* base_price x multiplier[grade] with the default table A: 1.0, B: 0.85,
\* C: 0.70 for the grades A, B and C, and the configured scrap price
\* reject_price_per_m2 for the grade Reject; the total price is the adjusted
\* unit price times the report's fabric area (each rounded to 2 decimals).
C12_LegacyPolicy ==
    pc = "priced" =>
        LET base  == pricing.base_price_per_m2
            area  == quality.fabric_area_m2
            grade == quality.grade
        IN  IF grade = REJECT
            THEN /\ pricing.adjusted_price_per_m2 = calculator.reject_price_per_m2
                 /\ pricing.total_adjusted_price
                       = round(calculator.reject_price_per_m2 * area, 1000)
            ELSE /\ grade \in DOMAIN LegacyTable
                 /\ pricing.adjusted_price_per_m2
                       = round(base * LegacyTable[grade], 20)
                 /\ pricing.total_adjusted_price
                       = round(base * LegacyTable[grade] * area, 20000)

C12_Witness ==
    /\ pc = "priced"
    /\ quality.grade = REJECT
    /\ calculator.reject_price_per_m2 = 1000
    /\ quality.fabric_area_m2 = 770
    /\ pricing.adjusted_price_per_m2 = 1000
    /\ pricing.total_adjusted_price = 770

\* C13: score_fabric computes points_per_100m2 = (total_points /
\* fabric_area_m2) x 100 when fabric_area_m2 > 0 (reported rounded to 2
\* decimals) and 0 otherwise; for every fabric_area_m2 <= 0 and every defect
\* list it returns a report with density 0 and grade A.
C13_DensityGuard ==
    quality # None =>
        LET area == quality.fabric_area_m2
            d    == quality.points_per_100m2
        IN  IF area > 0
            THEN /\ 2 * (d * area - total_points * 10000) <= area
                 /\ 2 * (total_points * 10000 - d * area) <= area
            ELSE /\ d = 0
                 /\ quality.grade = GradeA

C13_Witness ==
    /\ pc = "scored"
    /\ fabric_area_m2 < 0
    /\ Len(defects) = MaxDefects
    /\ total_points > 0
    /\ quality.points_per_100m2 = 0
    /\ quality.grade = GradeA

\* C14: for every report whose fabric_area_m2 is zero or negative the
\* PricingResult has total_base_price, total_price and discount_amount all 0.
C14_NonPositiveAreaZeroTotals ==
    (pc = "priced" /\ quality.fabric_area_m2 <= 0) =>
        /\ pricing.total_base_price = 0
        /\ pricing.total_adjusted_price = 0
        /\ pricing.discount_amount = 0

\* C19: in every report returned by score_fabric the grade is the grade of
\* the report's own points_per_100m2 field, the density rounded to 2
\* decimals: report.grade == calculate_grade(report.points_per_100m2).
C19_GradeOfStoredDensity ==
    quality # None =>
        quality.grade = calculate_grade(quality.points_per_100m2 * 10)

\* the points of the scores of one class, and the number of those scores
RECURSIVE ClassPoints(_, _)
ClassPoints(scores, class_name) ==
    IF scores = <<>> THEN 0
    ELSE LET last == scores[Len(scores)]
         IN  (IF last.defect_class = class_name THEN last.points ELSE 0)
             + ClassPoints(SubSeq(scores, 1, Len(scores) - 1), class_name)

ClassIndices(scores, class_name) ==
    {i \in 1..Len(scores) : scores[i].defect_class = class_name}

\* the sums of the counts and of the points over the summary's entries
RECURSIVE SummaryCounts(_)
SummaryCounts(data) ==
    IF data = <<>> THEN 0
    ELSE data[Len(data)].count + SummaryCounts(SubSeq(data, 1, Len(data) - 1))

RECURSIVE SummaryPoints(_)
SummaryPoints(data) ==
    IF data = <<>> THEN 0
    ELSE data[Len(data)].points + SummaryPoints(SubSeq(data, 1, Len(data) - 1))

\* the position at which a class is first seen among the scores
FirstSeen(scores, class_name) ==
    CHOOSE i \in ClassIndices(scores, class_name) :
        \A j \in ClassIndices(scores, class_name) : i <= j

\* C18: after every processed prefix of the defect list the per-class
\* summary is the exact grouping of the processed defects: for each class
\* seen, count is the number of processed defects of the class, major_count
\* + minor_count == count and points is the sum of their points; the counts
\* sum to the number of processed defects, the points sum to total_points,
\* and the keys are in first-seen order of the input.
C18_SummaryIsGrouping ==
    /\ pc \in {"loop", "scored", "priced"} =>
          LET n    == Len(defect_scores)
              keys == summary.keys
          IN  /\ n <= Len(defects)
              /\ \A i \in 1..n :
                    defect_scores[i].defect_class
                       = (IF "class_name" \in DOMAIN defects[i]
                          THEN defects[i].class_name ELSE "Unknown")
              /\ Len(summary.data) = Len(keys)
              /\ {keys[k] : k \in 1..Len(keys)}
                    = {defect_scores[i].defect_class : i \in 1..n}
              /\ \A k \in 1..Len(keys) :
                    LET idx == ClassIndices(defect_scores, keys[k])
                        e   == summary.data[k]
                    IN  /\ e.count = Cardinality(idx)
                        /\ e.major_count + e.minor_count = e.count
                        /\ e.major_count
                              = Cardinality({i \in idx :
                                               defect_scores[i].severity = MAJOR})
                        /\ e.points = ClassPoints(defect_scores, keys[k])
              /\ \A k1, k2 \in 1..Len(keys) :
                    k1 < k2 => FirstSeen(defect_scores, keys[k1])
                                  < FirstSeen(defect_scores, keys[k2])
              /\ SummaryCounts(summary.data) = n
              /\ SummaryPoints(summary.data) = total_points
    /\ quality # None => quality.summary = summary

C18_Witness ==
    /\ pc = "loop"
    /\ Len(defect_scores) = 3
    /\ defect_scores[1].defect_class = "Hole"
    /\ defect_scores[2].defect_class = "Line"
    /\ defect_scores[3].defect_class = "Hole"
    /\ summary.keys = <<"Hole", "Line">>
    /\ summary.data[1].count = 2
    /\ summary.data[2].count = 1

\* Pricer configurations with a custom table, both scrap prices; the
\* configurations with the default table are the calculators of Init
PricerConfigurations ==
    {PricingCalculator(10000, "TL", SurchargeMultipliers, rp) : rp \in RejectPrices}

\* C20: for every report r, every Pricer configuration and every
\* custom_base_price, calculate_price(r, custom_base_price) and
\* calculate_price_simple(r.grade, r.fabric_area_m2, custom_base_price)
\* return PricingResults that are equal field by field.
C20_SimpleAgrees ==
    pc = "priced" =>
        /\ \A self \in PricerConfigurations \cup {calculator},
              custom_base_price \in CustomPrices :
              LET full   == calculate_price(self, quality, custom_base_price)
                  simple == calculate_price_simple(self, quality.grade,
                                quality.fabric_area_m2, custom_base_price)
              IN  /\ DOMAIN full = DOMAIN simple
                  /\ \A field \in DOMAIN full : full[field] = simple[field]
        /\ \E custom_base_price \in CustomPrices :
              pricing = calculate_price_simple(calculator, quality.grade,
                            quality.fabric_area_m2, custom_base_price)

C20_Witness ==
    /\ pc = "priced"
    /\ quality.grade = GradeB
    /\ quality.fabric_area_m2 = 2000
    /\ pricing.base_price_per_m2 = 1006
    /\ pricing = calculate_price_simple(calculator, GradeB, 2000, Some(1006))
    /\ pricing.total_adjusted_price = 1710

(***************************************************************************)
(* Claims about the application pipeline, checked under SpecApp            *)
(***************************************************************************)
\* C11: the pipeline Detector -> Scorer -> Pricer always reaches a
\* PricingResult that reporting can read: constructing the Pricer with the
\* density policy (0.5, 0.70) or with the legacy policy never ends in an
\* error, and reading total_price and discount_rate off the result never
\* ends in an error.
C11_PipelineNeverFails ==
    pc # "error"

\* C15: configuration errors are rejected at construction time: a Pricer
\* whose grade multiplier would produce a negative discount rate (a
\* multiplier above 1) is never constructed, so no calculate_price call runs
\* with such a configuration and no result carries a negative discount.
C15_BadConfigurationRejected ==
    /\ calculator # None =>
          \A g \in DOMAIN calculator.grade_multipliers :
             calculator.grade_multipliers[g] <= 20
    /\ pricing # None => pricing.discount_percentage >= 0

(***************************************************************************)
(* Claims about repeated calls, checked under SpecRepeat                   *)
(***************************************************************************)
\* C17: scoring and pricing are pure and idempotent across a sequence of
\* calls on the same Scorer and Pricer: score_fabric called again with the
\* same inputs returns the same report and calculate_price called again with
\* the same report and custom price returns the same PricingResult, whatever
\* was called in between; every call leaves the instance configuration, the
\* input defect list and the input report as they were.
C17_PureAndIdempotent ==
    call.fn # "none" =>
        /\ scorer = call.scorer
        /\ calculator = call.calculator
        /\ call.fn \in {"first", "again", "second"} => defects = call.defects
        /\ call.fn = "first" => quality = call.quality
        /\ (call.fn = "again" /\ pc = "scored") => quality = call.quality
        /\ call.fn = "second" =>
              /\ quality = call.quality
              /\ pricing = call.pricing

C17_Witness ==
    /\ call.fn = "second"
    /\ call.n = 3
    /\ pc = "priced"
    /\ Len(defects) = 2
    /\ quality.total_points > 0
    /\ quality = call.quality
    /\ pricing = call.pricing
    /\ pricing.base_price_per_m2 = 1006

\* C21: whenever a custom_base_price is passed to calculate_price or to
\* calculate_price_simple (any value other than None, 0 included) the
\* result's base_price_per_m2 is that custom price and the totals are derived
\* from it; the instance's base_price_per_m2 is used only when none is passed.
C21_CustomPriceUsed ==
    call.fn = "first" =>
        LET custom == call.custom_base_price
            expected == IF custom # None THEN custom.val
                        ELSE calculator.base_price_per_m2
            simple == calculate_price_simple(calculator, quality.grade,
                          quality.fabric_area_m2, custom)
        IN  /\ pricing.base_price_per_m2 = expected
            /\ pricing.total_base_price
                  = round(expected * quality.fabric_area_m2, 1000)
            /\ simple.base_price_per_m2 = expected
            /\ simple.total_base_price
                  = round(expected * quality.fabric_area_m2, 1000)

====
